---- MODULE Spec2Model ----
(***************************************************************************)
(* VFIO passthrough for CDX devices (drivers/vfio/cdx/main.c) and the      *)
(* CDX bus MSI domain (drivers/cdx/cdx_msi.c).                             *)
(*                                                                         *)
(* Two specifications share the variables:                                 *)
(*   SpecMsi - the MSI domain operations of cdx_msi.c on two devices that  *)
(*             sit under one CDX-MSI domain;                               *)
(*   Spec    - one VFIO session (open, ioctl, mmap, close) on device "A".  *)
(*                                                                         *)
(* Return values are errno names ("OK" is 0, "VOID" a function with no     *)
(* return value).  A u64 that does not fit TLC's integers is held as its   *)
(* two 32-bit limbs [hi32, lo32].                                          *)
(***************************************************************************)
EXTENDS Integers, Sequences, FiniteSets, TLC

VARIABLES
    req_id,        \* cdx_dev->req_id of each device
    num_msi,       \* cdx_dev->num_msi of each device
    has_msi_data,  \* dev->msi.data is set up (msi_setup_device_data)
    descs,         \* MSI descriptors of each device: msi_index -> [hwirq, msg]
    hw,            \* what the Bus Controller has been configured with
    res,           \* cdx_dev->res[0 .. res_count-1] of the VFIO device
    regions,       \* vdev->regions: [st, arr]
    opened,        \* the VFIO core has the device open
    tokens,        \* notification token armed on each vector (0: none)
    op             \* the last operation: its inputs, calls and result

vars == <<req_id, num_msi, has_msi_data, descs, hw, res, regions, opened, tokens, op>>

msivars == <<req_id, num_msi, has_msi_data, descs, hw>>
sessvars == <<res, regions, opened, tokens>>

----------------------------------------------------------------------------
(* Bounds *)

\* largest vector count a device reports where descriptors are bound one by
\* one (SpecHwirq): one more than the 2^10 indices REQ_ID_SHIFT leaves room for
MaxMsi == 1025
\* largest vector count a device reports where whole allocations run (SpecMsi)
MaxVec == 2
\* largest requestor ID
MaxReqId == 1
\* number of vectors of the device bound to VFIO
SessMsi == 2
\* largest region index a map request or a query names
MaxIndex == 2
\* largest page offset inside a region a map request names
MaxPgoff == 2
\* largest length of a map request, in pages
MaxPages == 2

----------------------------------------------------------------------------
(* Bit arithmetic on naturals *)

RECURSIVE BitOr(_, _)
BitOr(a, b) ==
    IF a = 0 THEN b
    ELSE IF b = 0 THEN a
    ELSE (IF a % 2 = 1 \/ b % 2 = 1 THEN 1 ELSE 0) + 2 * BitOr(a \div 2, b \div 2)

RECURSIVE BitAnd(_, _)
BitAnd(a, b) ==
    IF a = 0 \/ b = 0 THEN 0
    ELSE (IF a % 2 = 1 /\ b % 2 = 1 THEN 1 ELSE 0) + 2 * BitAnd(a \div 2, b \div 2)

Shl(a, n) == a * (2 ^ n)
Shr(a, n) == a \div (2 ^ n)

----------------------------------------------------------------------------
(* cdx_msi.c *)

Devs == {"A", "B"}

REQ_ID_SHIFT == 10

\* the identity composed without the shift of the requestor ID
calc_hwirq_shift_dropped(req, msi_index) == BitOr(req, msi_index)

\* ((irq_hw_number_t)dev->req_id << REQ_ID_SHIFT) | desc->msi_index
cdx_domain_calc_hwirq(req, msi_index) ==
    BitOr(Shl(req, REQ_ID_SHIFT), msi_index)

ZeroMsg == [address_hi |-> 0, address_lo |-> 0, data |-> 0]

\* arg->desc = desc; arg->hwirq = cdx_domain_calc_hwirq(...)
cdx_msi_set_desc(d, msi_index) ==
    [hwirq |-> cdx_domain_calc_hwirq(req_id[d], msi_index), msg |-> ZeroMsg]

\* cdx->ops->dev_configure(): the Bus Controller applies the configuration
\* when it succeeds and leaves the hardware alone when it fails.  Of the
\* hardware only the device-wide MSI enable is kept; a message the controller
\* is handed is in the call that carries it.
dev_configure(h, cfg, cfg_ret) ==
    IF cfg_ret = "OK" /\ cfg.type = "CDX_DEV_MSI_ENABLE"
    THEN [h EXCEPT !.msi_enable = cfg.msi_enable]
    ELSE h

\* ((u64)address_hi << 32) | address_lo, as limbs
PackAddr(address_hi, address_lo) == [hi32 |-> address_hi, lo32 |-> address_lo]

\* cdx_msi_write_msg that tries the controller again after a failure
write_msg_retry(d, msi_index, msg, cfg_ret) ==
    LET dev_config == [type |-> "CDX_DEV_MSI_CONF",
                       msi_index |-> msi_index,
                       data |-> msg.data,
                       addr |-> PackAddr(msg.address_hi, msg.address_lo)]
    IN  [ret    |-> "VOID",
         descs  |-> [descs[d] EXCEPT ![msi_index].msg = msg],
         hw     |-> dev_configure(hw[d], dev_config, cfg_ret),
         calls  |-> IF cfg_ret # "OK" THEN <<dev_config, dev_config>>
                    ELSE <<dev_config>>,
         logged |-> IF cfg_ret # "OK"
                    THEN <<"Write MSI failed to CDX controller">> ELSE <<>>]

\* cdx_msi_write_msg(irq_data, msg): void
cdx_msi_write_msg(d, msi_index, msg, cfg_ret) ==
    LET dev_config == [type |-> "CDX_DEV_MSI_CONF",
                       msi_index |-> msi_index,
                       data |-> msg.data,
                       addr |-> PackAddr(msg.address_hi, msg.address_lo)]
    IN  [ret    |-> "VOID",
         descs  |-> [descs[d] EXCEPT ![msi_index].msg = msg],
         hw     |-> dev_configure(hw[d], dev_config, cfg_ret),
         calls  |-> <<dev_config>>,
         logged |-> IF cfg_ret # "OK"
                    THEN <<"Write MSI failed to CDX controller">> ELSE <<>>]

\* cdx_enable_msi that reports success whatever the controller answered
enable_msi_ret_dropped(h, cfg_ret) ==
    LET dev_config == [type |-> "CDX_DEV_MSI_ENABLE", msi_enable |-> TRUE]
    IN  [ret    |-> "OK",
         hw     |-> dev_configure(h, dev_config, cfg_ret),
         calls  |-> <<dev_config>>,
         logged |-> IF cfg_ret # "OK" THEN <<"MSI enable failed">> ELSE <<>>]

\* cdx_enable_msi(cdx_dev): int
cdx_enable_msi(h, cfg_ret) ==
    LET dev_config == [type |-> "CDX_DEV_MSI_ENABLE", msi_enable |-> TRUE]
    IN  [ret    |-> cfg_ret,
         hw     |-> dev_configure(h, dev_config, cfg_ret),
         calls  |-> <<dev_config>>,
         logged |-> IF cfg_ret # "OK" THEN <<"MSI enable failed">> ELSE <<>>]

\* cdx_disable_msi(cdx_dev): void
cdx_disable_msi(h, cfg_ret) ==
    LET dev_config == [type |-> "CDX_DEV_MSI_ENABLE", msi_enable |-> FALSE]
    IN  [ret    |-> "VOID",
         hw     |-> dev_configure(h, dev_config, cfg_ret),
         calls  |-> <<dev_config>>,
         logged |-> IF cfg_ret # "OK" THEN <<"MSI disable failed">> ELSE <<>>]

\* of_map_id(parent->of_node, req_id, "msi-map", "msi-map-mask", NULL, &dev_id):
\* the translation table of the controller node maps a requestor ID to the
\* device ID of the parent domain, or has no entry for it.
MsiMapBase == 64
of_map_id(req, map_ret) ==
    [ret |-> map_ret, dev_id |-> IF map_ret = "OK" THEN MsiMapBase + req ELSE 0]

\* cdx_msi_prepare that goes on to the parent after a failed translation
msi_prepare_ignores_map_failure(d, nvec, map_ret, parent_ret) ==
    LET m == of_map_id(req_id[d], map_ret)
    IN  [ret |-> parent_ret,
         calls |-> <<[fn |-> "parent.msi_prepare", nvec |-> nvec,
                      scratchpad0 |-> m.dev_id]>>,
         logged |-> IF m.ret # "OK" THEN <<"of_map_id failed for MSI">>
                    ELSE <<>>]

\* cdx_msi_prepare(msi_domain, dev, nvec, info)
cdx_msi_prepare(d, nvec, map_ret, parent_ret) ==
    LET m == of_map_id(req_id[d], map_ret)
    IN  IF m.ret # "OK"
        THEN [ret |-> m.ret, calls |-> <<>>,
              logged |-> <<"of_map_id failed for MSI">>]
        ELSE [ret |-> parent_ret,
              calls |-> <<[fn |-> "parent.msi_prepare", nvec |-> nvec,
                           scratchpad0 |-> m.dev_id]>>,
              logged |-> <<>>]

\* msi_setup_device_data(dev): allocates dev->msi.data unless it exists
msi_setup_device_data(d, setup_ret) ==
    IF has_msi_data[d] THEN [ret |-> "OK", has |-> TRUE]
    ELSE IF setup_ret = "OK" THEN [ret |-> "OK", has |-> TRUE]
    ELSE [ret |-> setup_ret, has |-> FALSE]

\* msi_domain_alloc_irqs(domain, dev, nvec) under MSI_FLAG_ALLOC_SIMPLE_MSI_DESCS
\* and MSI_FLAG_FREE_MSI_DESCS: prepare, then one descriptor per index
\* 0 .. nvec-1, each bound by set_desc; a failure frees what was allocated.
msi_domain_alloc_irqs(d, nvec, map_ret, parent_ret) ==
    LET p == cdx_msi_prepare(d, nvec, map_ret, parent_ret)
    IN  IF p.ret # "OK"
        THEN [ret |-> p.ret, descs |-> descs[d], calls |-> p.calls,
              logged |-> p.logged]
        ELSE [ret |-> "OK",
              descs |-> [i \in 0 .. nvec - 1 |-> cdx_msi_set_desc(d, i)],
              calls |-> p.calls, logged |-> p.logged]

\* the check the mutant of cdx_msi_domain_alloc_irqs leaves out
alloc_irqs_no_first_desc_check(d, irq_count, setup_ret, map_ret, parent_ret) ==
    LET s == msi_setup_device_data(d, setup_ret)
    IN  IF s.ret # "OK"
        THEN [ret |-> s.ret, has |-> s.has, descs |-> descs[d],
              calls |-> <<>>, logged |-> <<>>]
        ELSE LET a == msi_domain_alloc_irqs(d, irq_count, map_ret, parent_ret)
             IN  [ret |-> a.ret, has |-> s.has, descs |-> a.descs,
                  calls |-> <<[fn |-> "msi_domain_alloc_irqs"]>> \o a.calls,
                  logged |-> a.logged \o
                       (IF a.ret # "OK" THEN <<"Failed to allocate IRQs">> ELSE <<>>)]

\* cdx_msi_domain_alloc_irqs(dev, irq_count)
cdx_msi_domain_alloc_irqs(d, irq_count, setup_ret, map_ret, parent_ret) ==
    LET s == msi_setup_device_data(d, setup_ret)
    IN  IF s.ret # "OK"
        THEN [ret |-> s.ret, has |-> s.has, descs |-> descs[d],
              calls |-> <<>>, logged |-> <<>>]
        ELSE IF DOMAIN descs[d] # {}          \* msi_first_desc(dev, MSI_DESC_ALL)
        THEN [ret |-> "EINVAL", has |-> s.has, descs |-> descs[d],
              calls |-> <<>>, logged |-> <<>>]
        ELSE LET a == msi_domain_alloc_irqs(d, irq_count, map_ret, parent_ret)
             IN  [ret |-> a.ret, has |-> s.has, descs |-> a.descs,
                  calls |-> <<[fn |-> "msi_domain_alloc_irqs"]>> \o a.calls,
                  logged |-> a.logged \o
                       (IF a.ret # "OK" THEN <<"Failed to allocate IRQs">> ELSE <<>>)]

\* msi_domain_free_irqs_all(dev, MSI_DEFAULT_DOMAIN) under
\* MSI_FLAG_FREE_MSI_DESCS: every descriptor of the device is freed
NoDescs == [i \in {} |-> 0]
msi_domain_free_irqs_all(d) == NoDescs

----------------------------------------------------------------------------
(* The devices and the inputs of the MSI domain operations *)

ReqIds == 0 .. MaxReqId
NumMsiChoices == 1 .. MaxVec
Rets == {"OK", "EIO"}
MsgChoices == {[address_hi |-> 1, address_lo |-> 16, data |-> 7]}

NoHw == [msi_enable |-> FALSE]

NoOp == [name |-> "none", dev |-> "A", args |-> <<>>, ret |-> "OK",
         calls |-> <<>>, logged |-> <<>>]

\* the resources of the VFIO device: start, size, IORESOURCE_READONLY
Res(start, size, ro) == [start |-> start, size |-> size, readonly |-> ro]
NoRegions == [st |-> "null", arr |-> <<>>]

InitMsi ==
    /\ req_id \in {f \in [Devs -> ReqIds] : f["B"] = MaxReqId}
    /\ num_msi \in [Devs -> NumMsiChoices]
    /\ has_msi_data = [d \in Devs |-> FALSE]
    /\ descs = [d \in Devs |-> NoDescs]
    /\ hw = [d \in Devs |-> NoHw]
    /\ res = <<>>
    /\ regions = NoRegions
    /\ opened = FALSE
    /\ tokens = <<>>
    /\ op = NoOp

\* a driver asks for the vectors of its device
AllocIrqs(d) ==
    \E irq_count \in {num_msi[d]}, setup_ret \in {"OK", "ENOMEM"},
       map_ret \in {"OK", "ENODEV"}, parent_ret \in {"OK", "ENOMEM"} :
        LET r == cdx_msi_domain_alloc_irqs(d, irq_count, setup_ret, map_ret,
                                           parent_ret)
        IN  /\ has_msi_data' = [has_msi_data EXCEPT ![d] = r.has]
            /\ descs' = [descs EXCEPT ![d] = r.descs]
            /\ op' = [name |-> "alloc_irqs", dev |-> d,
                      args |-> [irq_count |-> irq_count], ret |-> r.ret,
                      calls |-> r.calls, logged |-> r.logged]
            /\ UNCHANGED <<req_id, num_msi, hw, sessvars>>

\* a driver frees the vectors of its device
FreeIrqs(d) ==
    /\ has_msi_data[d]
    /\ descs' = [descs EXCEPT ![d] = msi_domain_free_irqs_all(d)]
    /\ op' = [name |-> "free_irqs", dev |-> d, args |-> <<>>, ret |-> "VOID",
              calls |-> <<>>, logged |-> <<>>]
    /\ UNCHANGED <<req_id, num_msi, has_msi_data, hw, sessvars>>

\* the irq core composes a message for an allocated vector
WriteMsg(d) ==
    \E msi_index \in DOMAIN descs[d] \cap {0, num_msi[d] - 1},
       msg \in MsgChoices, cfg_ret \in Rets :
        LET r == cdx_msi_write_msg(d, msi_index, msg, cfg_ret)
        IN  /\ descs' = [descs EXCEPT ![d] = r.descs]
            /\ hw' = [hw EXCEPT ![d] = r.hw]
            /\ op' = [name |-> "write_msg", dev |-> d,
                      args |-> [msi_index |-> msi_index, msg |-> msg,
                                cfg_ret |-> cfg_ret],
                      ret |-> r.ret, calls |-> r.calls, logged |-> r.logged]
            /\ UNCHANGED <<req_id, num_msi, has_msi_data, sessvars>>

EnableMsi(d) ==
    \E cfg_ret \in Rets :
        LET r == cdx_enable_msi(hw[d], cfg_ret)
        IN  /\ hw' = [hw EXCEPT ![d] = r.hw]
            /\ op' = [name |-> "enable_msi", dev |-> d,
                      args |-> [cfg_ret |-> cfg_ret],
                      ret |-> r.ret, calls |-> r.calls, logged |-> r.logged]
            /\ UNCHANGED <<req_id, num_msi, has_msi_data, descs, sessvars>>

DisableMsi(d) ==
    \E cfg_ret \in Rets :
        LET r == cdx_disable_msi(hw[d], cfg_ret)
        IN  /\ hw' = [hw EXCEPT ![d] = r.hw]
            /\ op' = [name |-> "disable_msi", dev |-> d,
                      args |-> [cfg_ret |-> cfg_ret],
                      ret |-> r.ret, calls |-> r.calls, logged |-> r.logged]
            /\ UNCHANGED <<req_id, num_msi, has_msi_data, descs, sessvars>>

\* the irq core calls msi_domain_ops.msi_prepare for a device
Prepare(d) ==
    \E nvec \in 1 .. num_msi[d], map_ret \in {"OK", "ENODEV"},
       parent_ret \in {"OK", "ENOMEM"} :
        LET r == cdx_msi_prepare(d, nvec, map_ret, parent_ret)
        IN  /\ op' = [name |-> "msi_prepare", dev |-> d,
                      args |-> [nvec |-> nvec, map_ret |-> map_ret,
                                parent_ret |-> parent_ret],
                      ret |-> r.ret, calls |-> r.calls, logged |-> r.logged]
            /\ UNCHANGED <<msivars, sessvars>>

NextMsi ==
    \E d \in Devs :
        \/ Prepare(d)
        \/ AllocIrqs(d)
        \/ FreeIrqs(d)
        \/ WriteMsg(d)
        \/ EnableMsi(d)
        \/ DisableMsi(d)

SpecMsi == InitMsi /\ [][NextMsi]_vars

TypeMsi == \A d \in Devs : DOMAIN descs[d] \subseteq 0 .. num_msi[d] - 1

----------------------------------------------------------------------------
(* SpecHwirq: the irq core hands the descriptors of the devices to set_desc
   one at a time; the devices report up to MaxMsi vectors. *)

HwirqCounts == {2, 2 ^ REQ_ID_SHIFT, MaxMsi}

\* the descriptors followed: the first two, those around 2^REQ_ID_SHIFT, the last
HwirqIdx(d) ==
    {0, 1, 2 ^ REQ_ID_SHIFT - 1, 2 ^ REQ_ID_SHIFT, num_msi[d] - 1}
        \cap (0 .. num_msi[d] - 1)

InitHwirq ==
    /\ req_id \in [Devs -> ReqIds]
    /\ num_msi \in [Devs -> HwirqCounts]
    /\ has_msi_data = [d \in Devs |-> TRUE]
    /\ descs = [d \in Devs |-> NoDescs]
    /\ hw = [d \in Devs |-> NoHw]
    /\ res = <<>>
    /\ regions = NoRegions
    /\ opened = FALSE
    /\ tokens = <<>>
    /\ op = NoOp

\* msi_domain_ops.set_desc on one descriptor of device d
SetDesc(d) ==
    \E msi_index \in HwirqIdx(d) \ DOMAIN descs[d] :
        LET arg == cdx_msi_set_desc(d, msi_index)
        IN  /\ descs' = [descs EXCEPT ![d] =
                    [i \in DOMAIN descs[d] \cup {msi_index} |->
                        IF i = msi_index THEN arg ELSE descs[d][i]]]
            /\ op' = [name |-> "set_desc", dev |-> d,
                      args |-> [msi_index |-> msi_index], ret |-> "VOID",
                      calls |-> <<>>, logged |-> <<>>]
            /\ UNCHANGED <<req_id, num_msi, has_msi_data, hw, sessvars>>

\* the descriptors of device d are freed
FreeDescs(d) ==
    /\ DOMAIN descs[d] # {}
    /\ descs' = [descs EXCEPT ![d] = msi_domain_free_irqs_all(d)]
    /\ op' = [name |-> "free_irqs", dev |-> d, args |-> <<>>, ret |-> "VOID",
              calls |-> <<>>, logged |-> <<>>]
    /\ UNCHANGED <<req_id, num_msi, has_msi_data, hw, sessvars>>

NextHwirq ==
    \E d \in Devs :
        \/ SetDesc(d)
        \/ FreeDescs(d)

SpecHwirq == InitHwirq /\ [][NextHwirq]_vars


----------------------------------------------------------------------------
(* drivers/vfio/cdx/main.c: the region catalogue and the map request *)

PAGE_SHIFT == 12
PAGE_SIZE == 2 ^ PAGE_SHIFT
VFIO_CDX_OFFSET_SHIFT == 40

\* the device the session is bound to
VDev == "A"

\* cdx_dev->res as an array indexed from 0
Arr(seq) == [i \in 0 .. Len(seq) - 1 |-> seq[i + 1]]
res_count == Cardinality(DOMAIN res)

NoMapping == [pfn |-> 0, phys |-> 0, size |-> 0, prot |-> "none"]

\* x & ~PAGE_MASK
PageOffsetBits(x) == BitAnd(x, PAGE_SIZE - 1)

\* the loop body with the address test of the map-capable flag left out
region_of_size_test_only(r) ==
    [addr  |-> r.start,
     size  |-> r.size,
     type  |-> r.readonly,
     flags |-> (IF PageOffsetBits(r.size) = 0 THEN {"MMAP"} ELSE {})
               \cup {"READ"}
               \cup (IF ~r.readonly THEN {"WRITE"} ELSE {})]

\* the descriptor the loop of vfio_cdx_open_device computes for one resource
region_of(r) ==
    [addr  |-> r.start,
     size  |-> r.size,                       \* resource_size(res)
     type  |-> r.readonly,                   \* res->flags
     flags |-> (IF PageOffsetBits(r.start) = 0 /\ PageOffsetBits(r.size) = 0
                THEN {"MMAP"} ELSE {})
               \cup {"READ"}
               \cup (IF ~r.readonly THEN {"WRITE"} ELSE {})]

\* vfio_cdx_open_device(core_vdev); kcalloc returns zeroed storage or NULL
vfio_cdx_open_device(alloc_ret) ==
    IF alloc_ret # "OK"
    THEN [ret |-> "ENOMEM", regions |-> NoRegions]
    ELSE [ret |-> "OK",
          regions |-> [st |-> "live",
                       arr |-> [i \in DOMAIN res |-> region_of(res[i])]]]

\* vfio_cdx_regions_cleanup that frees nothing
regions_cleanup_leaks(rg) == rg

\* vfio_cdx_regions_cleanup(vdev): kfree(vdev->regions); the pointer is left
vfio_cdx_regions_cleanup(rg) == [st |-> "freed", arr |-> <<>>]

\* vfio_cdx_index_to_offset(index): (u64)index << VFIO_CDX_OFFSET_SHIFT, as
\* limbs; index is below 2^24, so nothing is shifted out of the high limb
vfio_cdx_index_to_offset(index) ==
    [hi32 |-> Shl(index, VFIO_CDX_OFFSET_SHIFT - 32), lo32 |-> 0]

\* the mm core turns the byte offset of a map request into vma->vm_pgoff
OffsetToPgoff(off) ==
    Shl(off.hi32, 32 - PAGE_SHIFT) + Shr(off.lo32, PAGE_SHIFT)

\* the index decoded by a shift that is one bit short
mmap_index_short_shift(vm_pgoff) ==
    Shr(vm_pgoff, VFIO_CDX_OFFSET_SHIFT - PAGE_SHIFT - 1)

\* index = vma->vm_pgoff >> (VFIO_CDX_OFFSET_SHIFT - PAGE_SHIFT)
mmap_index(vm_pgoff) == Shr(vm_pgoff, VFIO_CDX_OFFSET_SHIFT - PAGE_SHIFT)

\* pgoff = vma->vm_pgoff & ((1U << (VFIO_CDX_OFFSET_SHIFT - PAGE_SHIFT)) - 1)
mmap_pgoff(vm_pgoff) ==
    BitAnd(vm_pgoff, Shl(1, VFIO_CDX_OFFSET_SHIFT - PAGE_SHIFT) - 1)

\* io_remap_pfn_range(vma, vm_start, pfn, size, prot): maps size bytes of
\* physical memory from page frame pfn, or fails and maps nothing
io_remap_pfn_range(pfn, size, prot, remap_ret) ==
    IF remap_ret # "OK" THEN [ret |-> remap_ret, mapping |-> NoMapping]
    ELSE [ret |-> "OK",
          mapping |-> [pfn |-> pfn, phys |-> Shl(pfn, PAGE_SHIFT),
                       size |-> size, prot |-> prot]]

\* vfio_cdx_mmap_mmio without the test of the request against region.size
mmap_mmio_unbounded(region, vma, remap_ret) ==
    LET pgoff == mmap_pgoff(vma.vm_pgoff)
    IN  io_remap_pfn_range(Shr(region.addr, PAGE_SHIFT) + pgoff, vma.size,
                           "device", remap_ret)

\* vfio_cdx_mmap_mmio(region, vma)
vfio_cdx_mmap_mmio(region, vma, remap_ret) ==
    LET size  == vma.size                    \* vm_end - vm_start
        pgoff == mmap_pgoff(vma.vm_pgoff)
        base  == Shl(pgoff, PAGE_SHIFT)
    IN  IF region.size < PAGE_SIZE \/ base + size > region.size
        THEN [ret |-> "EINVAL", mapping |-> NoMapping]
        ELSE io_remap_pfn_range(Shr(region.addr, PAGE_SHIFT) + pgoff, size,
                                "device", remap_ret)

\* vfio_cdx_mmap without the test of VFIO_REGION_INFO_FLAG_MMAP
mmap_flag_mmap_unchecked(vma, remap_ret) ==
    LET index == mmap_index(vma.vm_pgoff)
    IN  IF index >= res_count
        THEN [ret |-> "EINVAL", index |-> index, mapping |-> NoMapping]
        ELSE IF "READ" \notin regions.arr[index].flags /\ "READ" \in vma.vm_flags
        THEN [ret |-> "EINVAL", index |-> index, mapping |-> NoMapping]
        ELSE IF "WRITE" \notin regions.arr[index].flags /\ "WRITE" \in vma.vm_flags
        THEN [ret |-> "EINVAL", index |-> index, mapping |-> NoMapping]
        ELSE LET m == vfio_cdx_mmap_mmio(regions.arr[index], vma, remap_ret)
             IN  [ret |-> m.ret, index |-> index, mapping |-> m.mapping]

\* vfio_cdx_mmap without the test of VM_WRITE against the region's flags
mmap_write_unchecked(vma, remap_ret) ==
    LET index == mmap_index(vma.vm_pgoff)
    IN  IF index >= res_count
        THEN [ret |-> "EINVAL", index |-> index, mapping |-> NoMapping]
        ELSE IF "MMAP" \notin regions.arr[index].flags
        THEN [ret |-> "EINVAL", index |-> index, mapping |-> NoMapping]
        ELSE IF "READ" \notin regions.arr[index].flags /\ "READ" \in vma.vm_flags
        THEN [ret |-> "EINVAL", index |-> index, mapping |-> NoMapping]
        ELSE LET m == vfio_cdx_mmap_mmio(regions.arr[index], vma, remap_ret)
             IN  [ret |-> m.ret, index |-> index, mapping |-> m.mapping]

\* vfio_cdx_mmap(core_vdev, vma)
vfio_cdx_mmap(vma, remap_ret) ==
    LET index == mmap_index(vma.vm_pgoff)
    IN  IF index >= res_count
        THEN [ret |-> "EINVAL", index |-> index, mapping |-> NoMapping]
        ELSE IF "MMAP" \notin regions.arr[index].flags
        THEN [ret |-> "EINVAL", index |-> index, mapping |-> NoMapping]
        ELSE IF "READ" \notin regions.arr[index].flags /\ "READ" \in vma.vm_flags
        THEN [ret |-> "EINVAL", index |-> index, mapping |-> NoMapping]
        ELSE IF "WRITE" \notin regions.arr[index].flags /\ "WRITE" \in vma.vm_flags
        THEN [ret |-> "EINVAL", index |-> index, mapping |-> NoMapping]
        ELSE LET m == vfio_cdx_mmap_mmio(regions.arr[index], vma, remap_ret)
             IN  [ret |-> m.ret, index |-> index, mapping |-> m.mapping]

----------------------------------------------------------------------------
(* drivers/vfio/cdx/main.c: the commands *)

DeviceInfoMinsz == 16     \* offsetofend(struct vfio_device_info, num_irqs)
RegionInfoMinsz == 32     \* offsetofend(struct vfio_region_info, offset)
IrqInfoMinsz == 16        \* offsetofend(struct vfio_irq_info, count)
IrqSetMinsz == 20         \* offsetofend(struct vfio_irq_set, count)

NoOut == [written |-> FALSE]

\* what a handler leaves as it found it
Same ==
    [ret |-> "OK", out |-> NoOut, calls |-> <<>>, logged |-> <<>>,
     tokens |-> tokens, descs |-> descs[VDev], has |-> has_msi_data[VDev],
     hw |-> hw[VDev]]

Fail(e) == [Same EXCEPT !.ret = e]

\* vfio_cdx_ioctl_get_info that takes a payload of the minimum size only
get_info_exact_size_only(arg, env) ==
    IF env.fault_in THEN Fail("EFAULT")
    ELSE IF arg.argsz # DeviceInfoMinsz THEN Fail("EINVAL")
    ELSE IF env.fault_out THEN Fail("EFAULT")
    ELSE [Same EXCEPT !.out = [written |-> TRUE, flags |-> {"CDX", "RESET"},
                               num_regions |-> res_count, num_irqs |-> 1]]

\* vfio_cdx_ioctl_get_info(vdev, arg)
vfio_cdx_ioctl_get_info(arg, env) ==
    IF env.fault_in THEN Fail("EFAULT")
    ELSE IF arg.argsz < DeviceInfoMinsz THEN Fail("EINVAL")
    ELSE IF env.fault_out THEN Fail("EFAULT")
    ELSE [Same EXCEPT !.out = [written |-> TRUE, flags |-> {"CDX", "RESET"},
                               num_regions |-> res_count, num_irqs |-> 1]]

\* vfio_cdx_ioctl_get_region_info that reports the address field as the size
get_region_info_reports_addr(arg, env) ==
    IF env.fault_in THEN Fail("EFAULT")
    ELSE IF arg.argsz < RegionInfoMinsz THEN Fail("EINVAL")
    ELSE IF arg.index >= res_count THEN Fail("EINVAL")
    ELSE IF env.fault_out THEN Fail("EFAULT")
    ELSE [Same EXCEPT !.out =
            [written |-> TRUE,
             offset |-> vfio_cdx_index_to_offset(arg.index),
             size |-> regions.arr[arg.index].addr,
             flags |-> regions.arr[arg.index].flags]]

\* vfio_cdx_ioctl_get_region_info(vdev, arg)
vfio_cdx_ioctl_get_region_info(arg, env) ==
    IF env.fault_in THEN Fail("EFAULT")
    ELSE IF arg.argsz < RegionInfoMinsz THEN Fail("EINVAL")
    ELSE IF arg.index >= res_count THEN Fail("EINVAL")
    ELSE IF env.fault_out THEN Fail("EFAULT")
    ELSE [Same EXCEPT !.out =
            [written |-> TRUE,
             offset |-> vfio_cdx_index_to_offset(arg.index),
             size |-> regions.arr[arg.index].size,
             flags |-> regions.arr[arg.index].flags]]

\* vfio_cdx_ioctl_get_irq_info whose index test is off by one
get_irq_info_index_off_by_one(arg, env) ==
    IF env.fault_in THEN Fail("EFAULT")
    ELSE IF arg.argsz < IrqInfoMinsz THEN Fail("EINVAL")
    ELSE IF arg.index > 1 THEN Fail("EINVAL")
    ELSE IF env.fault_out THEN Fail("EFAULT")
    ELSE [Same EXCEPT !.out = [written |-> TRUE, flags |-> {"EVENTFD"},
                               count |-> num_msi[VDev]]]

\* vfio_cdx_ioctl_get_irq_info(vdev, arg)
vfio_cdx_ioctl_get_irq_info(arg, env) ==
    IF env.fault_in THEN Fail("EFAULT")
    ELSE IF arg.argsz < IrqInfoMinsz THEN Fail("EINVAL")
    ELSE IF arg.index >= 1 THEN Fail("EINVAL")
    ELSE IF env.fault_out THEN Fail("EFAULT")
    ELSE [Same EXCEPT !.out = [written |-> TRUE, flags |-> {"EVENTFD"},
                               count |-> num_msi[VDev]]]

\* cdx_dev_reset(dev): the Bus Controller resets the device and answers
cdx_dev_reset(reset_ret) == reset_ret

\* a call of the MSI layer as it shows in the calls of a session operation
Wrap(calls) == [i \in DOMAIN calls |-> [fn |-> "dev_configure", cfg |-> calls[i]]]

\* vfio_set_irqs_validate_and_prepare(hdr, num_irqs, max_irq_type, &data_size):
\* the header is checked and the size of the token array computed from count
vfio_set_irqs_validate_and_prepare(hdr, num_irqs, max_irq_type) ==
    IF hdr.argsz < IrqSetMinsz \/ hdr.index >= max_irq_type
    THEN [ret |-> "EINVAL", data_size |-> 0]
    ELSE IF hdr.start >= num_irqs \/ hdr.start + hdr.count > num_irqs
    THEN [ret |-> "EINVAL", data_size |-> 0]
    ELSE [ret |-> "OK", data_size |-> hdr.count]

\* vfio_cdx_set_irqs_ioctl(vdev, flags, index, start, count, data): the
\* vectors of the device are allocated and enabled together the first time,
\* then the tokens are associated from start on; a token of -1 clears
vfio_cdx_set_irqs_ioctl(index, start, count, data, env) ==
    IF index # 0 \/ start + count > num_msi[VDev]
    THEN Fail("EINVAL")
    ELSE
    LET a == IF DOMAIN descs[VDev] # {}
             THEN [ret |-> "OK", has |-> has_msi_data[VDev],
                   descs |-> descs[VDev], calls |-> <<>>, logged |-> <<>>]
             ELSE cdx_msi_domain_alloc_irqs(VDev, num_msi[VDev], env.setup_ret,
                                            env.map_ret, env.parent_ret)
        e == IF DOMAIN descs[VDev] # {}
             THEN [ret |-> "OK", hw |-> hw[VDev], calls |-> <<>>, logged |-> <<>>]
             ELSE cdx_enable_msi(hw[VDev], env.cfg_ret)
    IN  IF a.ret # "OK"
        THEN [Same EXCEPT !.ret = a.ret, !.has = a.has,
                          !.calls = a.calls, !.logged = a.logged]
        ELSE IF e.ret # "OK"
        THEN [Same EXCEPT !.ret = e.ret, !.has = a.has,
                          !.descs = msi_domain_free_irqs_all(VDev),
                          !.calls = a.calls \o Wrap(e.calls)
                                    \o <<[fn |-> "msi_domain_free_irqs_all"]>>,
                          !.logged = a.logged \o e.logged]
        ELSE [Same EXCEPT !.has = a.has, !.descs = a.descs, !.hw = e.hw,
                          !.calls = a.calls \o Wrap(e.calls),
                          !.tokens = [j \in DOMAIN tokens |->
                               IF start <= j /\ j < start + count
                               THEN (IF data[j - start + 1] = -1 THEN 0
                                     ELSE data[j - start + 1])
                               ELSE tokens[j]]]

\* vfio_cdx_ioctl_set_irqs that goes on after a failed validation
set_irqs_validation_ignored(hdr, data, env) ==
    IF env.fault_in THEN Fail("EFAULT")
    ELSE
    LET v == vfio_set_irqs_validate_and_prepare(hdr, num_msi[VDev], 1)
        dup == IF hdr.count # 0 THEN <<[fn |-> "memdup_user"]>> ELSE <<>>
    IN  IF hdr.count # 0 /\ env.dup_ret # "OK"
        THEN [Same EXCEPT !.ret = env.dup_ret, !.calls = dup]
        ELSE LET r == vfio_cdx_set_irqs_ioctl(hdr.index, hdr.start,
                                               hdr.count, data, env)
             IN  [r EXCEPT !.calls = dup
                      \o <<[fn |-> "vfio_cdx_set_irqs_ioctl"]>> \o r.calls]

\* vfio_cdx_ioctl_set_irqs(vdev, arg)
vfio_cdx_ioctl_set_irqs(hdr, data, env) ==
    IF env.fault_in THEN Fail("EFAULT")
    ELSE
    LET v == vfio_set_irqs_validate_and_prepare(hdr, num_msi[VDev], 1)
        dup == IF v.data_size # 0 THEN <<[fn |-> "memdup_user"]>> ELSE <<>>
    IN  IF v.ret # "OK" THEN Fail(v.ret)
        ELSE IF v.data_size # 0 /\ env.dup_ret # "OK"
        THEN [Same EXCEPT !.ret = env.dup_ret, !.calls = dup]
        ELSE LET r == vfio_cdx_set_irqs_ioctl(hdr.index, hdr.start,
                                               hdr.count, data, env)
             IN  [r EXCEPT !.calls = dup
                      \o <<[fn |-> "vfio_cdx_set_irqs_ioctl"]>> \o r.calls]

\* vfio_cdx_ioctl whose RESET calls the controller and reports success
ioctl_reset_result_dropped(cmd, arg, env) ==
    CASE cmd = "VFIO_DEVICE_GET_INFO" -> vfio_cdx_ioctl_get_info(arg, env)
      [] cmd = "VFIO_DEVICE_GET_REGION_INFO" ->
            vfio_cdx_ioctl_get_region_info(arg, env)
      [] cmd = "VFIO_DEVICE_GET_IRQ_INFO" -> vfio_cdx_ioctl_get_irq_info(arg, env)
      [] cmd = "VFIO_DEVICE_SET_IRQS" ->
            vfio_cdx_ioctl_set_irqs(arg.hdr, arg.data, env)
      [] cmd = "VFIO_DEVICE_RESET" ->
            [Same EXCEPT !.calls = <<[fn |-> "cdx_dev_reset"]>>]
      [] OTHER -> Fail("ENOTTY")

\* vfio_cdx_ioctl(core_vdev, cmd, arg)
vfio_cdx_ioctl(cmd, arg, env) ==
    CASE cmd = "VFIO_DEVICE_GET_INFO" -> vfio_cdx_ioctl_get_info(arg, env)
      [] cmd = "VFIO_DEVICE_GET_REGION_INFO" ->
            vfio_cdx_ioctl_get_region_info(arg, env)
      [] cmd = "VFIO_DEVICE_GET_IRQ_INFO" -> vfio_cdx_ioctl_get_irq_info(arg, env)
      [] cmd = "VFIO_DEVICE_SET_IRQS" ->
            vfio_cdx_ioctl_set_irqs(arg.hdr, arg.data, env)
      [] cmd = "VFIO_DEVICE_RESET" ->
            [Same EXCEPT !.ret = cdx_dev_reset(env.reset_ret),
                         !.calls = <<[fn |-> "cdx_dev_reset"]>>]
      [] OTHER -> Fail("ENOTTY")

\* vfio_cdx_irqs_cleanup(vdev): nothing when no vector was allocated; else
\* the tokens are dropped, the device is disabled, then every vector freed
vfio_cdx_irqs_cleanup(cfg_ret) ==
    IF DOMAIN descs[VDev] = {} THEN Same
    ELSE LET d == cdx_disable_msi(hw[VDev], cfg_ret)
         IN  [Same EXCEPT !.tokens = [j \in DOMAIN tokens |-> 0],
                          !.hw = d.hw,
                          !.descs = msi_domain_free_irqs_all(VDev),
                          !.calls = Wrap(d.calls)
                                    \o <<[fn |-> "msi_domain_free_irqs_all"]>>,
                          !.logged = d.logged]

\* vfio_cdx_close_device that leaves the interrupts as they are
close_device_without_irqs_cleanup(reset_ret, cfg_ret) ==
    LET rg == vfio_cdx_regions_cleanup(regions)
        ret == cdx_dev_reset(reset_ret)
        warn == IF ret # "OK"
                THEN <<"VFIO_CDX: reset device has failed">> ELSE <<>>
    IN  [Same EXCEPT !.ret = "VOID",
                  !.calls = <<[fn |-> "kfree"], [fn |-> "cdx_dev_reset"]>>,
                  !.logged = warn]
        @@ [regions |-> rg]

\* vfio_cdx_close_device that gives up when the reset fails
close_device_stops_on_reset_failure(reset_ret, cfg_ret) ==
    LET rg == vfio_cdx_regions_cleanup(regions)
        ret == cdx_dev_reset(reset_ret)
        c == vfio_cdx_irqs_cleanup(cfg_ret)
    IN  IF ret # "OK"
        THEN [Same EXCEPT !.ret = "VOID",
                  !.calls = <<[fn |-> "kfree"], [fn |-> "cdx_dev_reset"]>>,
                  !.logged = <<"VFIO_CDX: reset device has failed">>]
             @@ [regions |-> rg]
        ELSE [c EXCEPT !.ret = "VOID",
                  !.calls = <<[fn |-> "kfree"], [fn |-> "cdx_dev_reset"],
                              [fn |-> "vfio_cdx_irqs_cleanup"]>> \o c.calls]
             @@ [regions |-> rg]

\* vfio_cdx_close_device(core_vdev)
vfio_cdx_close_device(reset_ret, cfg_ret) ==
    LET rg == vfio_cdx_regions_cleanup(regions)
        ret == cdx_dev_reset(reset_ret)
        warn == IF ret # "OK"
                THEN <<"VFIO_CDX: reset device has failed">> ELSE <<>>
        c == vfio_cdx_irqs_cleanup(cfg_ret)
    IN  [c EXCEPT !.ret = "VOID",
                  !.calls = <<[fn |-> "kfree"], [fn |-> "cdx_dev_reset"],
                              [fn |-> "vfio_cdx_irqs_cleanup"]>> \o c.calls,
                  !.logged = warn \o c.logged]
        @@ [regions |-> rg]

----------------------------------------------------------------------------
(* Spec: one VFIO session on device VDev *)

\* the resources a device comes with: windows that do not overlap
ResChoices ==
    { Arr(<<Res(4096, 4096, FALSE), Res(8192, 8192, TRUE)>>),
      Arr(<<Res(4660, 16, TRUE), Res(8192, 8192, FALSE)>>),
      Arr(<<Res(20992, 8192, FALSE), Res(32768, 0, FALSE)>>) }

EnvOk ==
    [fault_in |-> FALSE, fault_out |-> FALSE, dup_ret |-> "OK",
     setup_ret |-> "OK", map_ret |-> "OK", parent_ret |-> "OK",
     cfg_ret |-> "OK", reset_ret |-> "OK", remap_ret |-> "OK"]

QueryEnvs ==
    {EnvOk, [EnvOk EXCEPT !.fault_in = TRUE], [EnvOk EXCEPT !.fault_out = TRUE]}

IrqEnvs ==
    {EnvOk, [EnvOk EXCEPT !.fault_in = TRUE], [EnvOk EXCEPT !.dup_ret = "EFAULT"],
     [EnvOk EXCEPT !.map_ret = "ENODEV"], [EnvOk EXCEPT !.cfg_ret = "EIO"]}

Argsz(minsz) == {minsz - 4, minsz, minsz + 8}

\* the SET_IRQS requests: every start and count around the vector count with
\* a token array that arms (5) or clears (-1), a short header, a second group
SetIrqsArgs ==
    { [hdr |-> [argsz |-> IrqSetMinsz, index |-> 0, start |-> st, count |-> c],
       data |-> [k \in 1 .. c |-> t]] :
         st \in 0 .. SessMsi, c \in 0 .. SessMsi + 1, t \in {-1, 5} }
    \cup
    { [hdr |-> [argsz |-> IrqSetMinsz - 4, index |-> 0, start |-> 0, count |-> 1],
       data |-> <<5>>],
      [hdr |-> [argsz |-> IrqSetMinsz, index |-> 1, start |-> 0, count |-> 1],
       data |-> <<5>>] }

\* the map requests: vm_pgoff names a region index and a page inside it
Pgoffs ==
    { Shl(i, VFIO_CDX_OFFSET_SHIFT - PAGE_SHIFT) + p :
        i \in 0 .. MaxIndex, p \in 0 .. MaxPgoff }

Vmas ==
    { [vm_pgoff |-> po, size |-> n * PAGE_SIZE, vm_flags |-> fl] :
        po \in Pgoffs, n \in 1 .. MaxPages,
        fl \in {{"READ"}, {"READ", "WRITE"}} }

Init ==
    /\ req_id = [d \in Devs |-> IF d = VDev THEN 0 ELSE 1]
    /\ num_msi = [d \in Devs |-> IF d = VDev THEN SessMsi ELSE 1]
    /\ has_msi_data = [d \in Devs |-> FALSE]
    /\ descs = [d \in Devs |-> NoDescs]
    /\ hw = [d \in Devs |-> NoHw]
    /\ res \in ResChoices
    /\ regions = NoRegions
    /\ opened = FALSE
    /\ tokens = [j \in 0 .. SessMsi - 1 |-> 0]
    /\ op = NoOp

\* the result r of a handler becomes the state
Apply(name, args, env, r) ==
    /\ tokens' = r.tokens
    /\ descs' = [descs EXCEPT ![VDev] = r.descs]
    /\ has_msi_data' = [has_msi_data EXCEPT ![VDev] = r.has]
    /\ hw' = [hw EXCEPT ![VDev] = r.hw]
    /\ op' = [name |-> name, dev |-> VDev, args |-> args, env |-> env,
              ret |-> r.ret, calls |-> r.calls, logged |-> r.logged,
              out |-> r.out]
    /\ UNCHANGED <<req_id, num_msi, res>>

Open ==
    /\ ~opened
    /\ \E alloc_ret \in {"OK", "ENOMEM"} :
        LET r == vfio_cdx_open_device(alloc_ret)
        IN  /\ regions' = r.regions
            /\ opened' = (r.ret = "OK")
            /\ Apply("open", [alloc_ret |-> alloc_ret, prior |-> regions.st],
                     EnvOk,
                     [Same EXCEPT !.ret = r.ret])

Close ==
    /\ opened
    /\ \E reset_ret \in Rets, cfg_ret \in Rets :
        LET r == vfio_cdx_close_device(reset_ret, cfg_ret)
        IN  /\ regions' = r.regions
            /\ opened' = FALSE
            /\ Apply("close",
                     [had_vectors |-> DOMAIN descs[VDev] # {},
                      had_armed |-> {j \in DOMAIN tokens : tokens[j] # 0}],
                     [EnvOk EXCEPT !.reset_ret = reset_ret, !.cfg_ret = cfg_ret],
                     r)

Ioctl(cmd, arg, env) ==
    /\ opened
    /\ Apply(cmd, arg, env, vfio_cdx_ioctl(cmd, arg, env))
    /\ UNCHANGED <<regions, opened>>

GetInfo ==
    \E argsz \in Argsz(DeviceInfoMinsz), env \in QueryEnvs :
        Ioctl("VFIO_DEVICE_GET_INFO", [argsz |-> argsz], env)

GetRegionInfo ==
    \E argsz \in Argsz(RegionInfoMinsz), index \in 0 .. MaxIndex,
       env \in QueryEnvs :
        Ioctl("VFIO_DEVICE_GET_REGION_INFO",
              [argsz |-> argsz, index |-> index], env)

GetIrqInfo ==
    \E argsz \in Argsz(IrqInfoMinsz), index \in 0 .. 1, env \in QueryEnvs :
        Ioctl("VFIO_DEVICE_GET_IRQ_INFO", [argsz |-> argsz, index |-> index], env)

\* the failures of the environment are followed on the requests that start
\* at vector 0
SetIrqs ==
    \E arg \in SetIrqsArgs :
        \E env \in IF arg.hdr.start = 0 THEN IrqEnvs ELSE {EnvOk} :
            Ioctl("VFIO_DEVICE_SET_IRQS", arg, env)

Reset ==
    \E reset_ret \in Rets :
        Ioctl("VFIO_DEVICE_RESET", <<>>, [EnvOk EXCEPT !.reset_ret = reset_ret])

UnknownCmd ==
    Ioctl("VFIO_DEVICE_PCI_HOT_RESET", <<>>, EnvOk)

\* a map request that writes the mapped base back into the region descriptor
Mmap_rebases_region ==
    /\ opened
    /\ \E vma \in Vmas, remap_ret \in {"OK", "ENOMEM"} :
        LET m == vfio_cdx_mmap(vma, remap_ret)
        IN  /\ Apply("mmap", vma, [EnvOk EXCEPT !.remap_ret = remap_ret],
                     [Same EXCEPT !.ret = m.ret,
                                  !.out = [written |-> FALSE, index |-> m.index,
                                           mapping |-> m.mapping]])
            /\ regions' = IF m.ret = "OK"
                          THEN [regions EXCEPT
                                  !.arr[m.index].addr = m.mapping.phys]
                          ELSE regions
    /\ UNCHANGED opened

\* a failure of io_remap_pfn_range is followed on the one-page requests
Mmap ==
    /\ opened
    /\ \E vma \in Vmas :
       \E remap_ret \in IF vma.size = PAGE_SIZE THEN {"OK", "ENOMEM"}
                                               ELSE {"OK"} :
        LET m == vfio_cdx_mmap(vma, remap_ret)
        IN  Apply("mmap", vma, [EnvOk EXCEPT !.remap_ret = remap_ret],
                  [Same EXCEPT !.ret = m.ret,
                               !.out = [written |-> FALSE, index |-> m.index,
                                        mapping |-> m.mapping]])
    /\ UNCHANGED <<regions, opened>>

Next ==
    \/ Open
    \/ Close
    \/ GetInfo
    \/ GetRegionInfo
    \/ GetIrqInfo
    \/ SetIrqs
    \/ Reset
    \/ UnknownCmd
    \/ Mmap

Spec == Init /\ [][Next]_vars

TypeSess ==
    /\ regions.st \in {"null", "live", "freed"}
    /\ opened => regions.st = "live"
    /\ DOMAIN descs[VDev] \in {{}, 0 .. SessMsi - 1}

----------------------------------------------------------------------------
(* Claims on the MSI domain *)

\* C3: two devices of one Interrupt Domain with different requestor IDs never
\* get equal composite hardware identities, whatever vectors of theirs are
\* bound.
C3_DistinctAcrossDevices ==
    \A a \in Devs, b \in Devs :
        req_id[a] # req_id[b] =>
            \A i \in DOMAIN descs[a], j \in DOMAIN descs[b] :
                descs[a][i].hwirq # descs[b][j].hwirq

\* C6 as stated: when the controller's configure call fails, write_message
\* reports the failure to its caller.
C6_FailurePropagated ==
    (op.name = "write_msg" /\ op.args.cfg_ret # "OK") => op.ret = op.args.cfg_ret

\* C6 as amended: write_message issues exactly one configure call, tagged
\* with the vector index and carrying the message; it returns nothing, a
\* controller failure is only logged, and the message stays in the descriptor.
C6_FailureLoggedOnly ==
    op.name = "write_msg" =>
        /\ Len(op.calls) = 1
        /\ op.calls[1].type = "CDX_DEV_MSI_CONF"
        /\ op.calls[1].msi_index = op.args.msi_index
        /\ op.calls[1].data = op.args.msg.data
        /\ op.ret = "VOID"
        /\ (op.args.cfg_ret # "OK" <=> op.logged # <<>>)
        /\ descs[op.dev][op.args.msi_index].msg = op.args.msg

C6_Witness ==
    /\ op.name = "write_msg"
    /\ op.args.cfg_ret # "OK"
    /\ op.args.msi_index \in DOMAIN descs[op.dev]

\* C7 as stated: enable and disable each issue one SetMsiEnable configure
\* call, and a controller failure is the result of the operation in both
\* directions.
C7_BothDirectionsReport ==
    op.name \in {"enable_msi", "disable_msi"} =>
        /\ Len(op.calls) = 1
        /\ (op.args.cfg_ret # "OK" => op.ret = op.args.cfg_ret)

\* C7 as amended: enable and disable each issue exactly one device-wide
\* SetMsiEnable configure call; enable returns the controller's result,
\* disable returns nothing and only logs a controller failure.
C7_EnableReportsDisableLogs ==
    op.name \in {"enable_msi", "disable_msi"} =>
        /\ Len(op.calls) = 1
        /\ op.calls[1] = [type |-> "CDX_DEV_MSI_ENABLE",
                          msi_enable |-> (op.name = "enable_msi")]
        /\ (op.args.cfg_ret # "OK" <=> op.logged # <<>>)
        /\ (op.name = "enable_msi" => op.ret = op.args.cfg_ret)
        /\ (op.name = "disable_msi" => op.ret = "VOID")

C7_Witness ==
    /\ op.name = "disable_msi"
    /\ op.args.cfg_ret # "OK"
    /\ hw[op.dev].msi_enable

\* C10: an allocation for a device that has a descriptor fails EINVAL, does
\* not reach the domain allocation and leaves the descriptors alone; a
\* successful allocation starts from no descriptor and leaves some; only a
\* free removes the descriptors.  So two successful allocations of a device
\* have a free of all its vectors between them.
C10_SingleEpoch ==
    [][\A d \in Devs :
        /\ (op'.name = "alloc_irqs" /\ op'.dev = d /\ DOMAIN descs[d] # {}) =>
                /\ op'.ret = "EINVAL"
                /\ op'.calls = <<>>
                /\ descs'[d] = descs[d]
        /\ (op'.name = "alloc_irqs" /\ op'.dev = d /\ op'.ret = "OK") =>
                /\ DOMAIN descs[d] = {}
                /\ DOMAIN descs'[d] # {}
        /\ (DOMAIN descs[d] # {} /\ DOMAIN descs'[d] = {}) =>
                /\ op'.name = "free_irqs"
                /\ op'.dev = d
      ]_vars

C10_Witness ==
    /\ op.name = "alloc_irqs"
    /\ op.ret = "EINVAL"
    /\ DOMAIN descs[op.dev] = 0 .. num_msi[op.dev] - 1


----------------------------------------------------------------------------
(* Claims on the session *)

\* the region a map request addresses and the bytes into it, from vm_pgoff
ReqIndex(vma) == vma.vm_pgoff \div 2 ^ (VFIO_CDX_OFFSET_SHIFT - PAGE_SHIFT)
ReqPageOffset(vma) ==
    (vma.vm_pgoff % 2 ^ (VFIO_CDX_OFFSET_SHIFT - PAGE_SHIFT)) * PAGE_SIZE
IsMap == op.name = "mmap"
Addressed == regions.arr[ReqIndex(op.args)]
AddressesRegion == IsMap /\ ReqIndex(op.args) \in DOMAIN regions.arr

\* C1: a successful map covers exactly the bytes
\* [address + page_offset, address + page_offset + length) of the region its
\* offset names; they lie inside that region and outside every other one.
C1_MapInsideRegion ==
    (IsMap /\ op.ret = "OK") =>
        /\ AddressesRegion
        /\ op.out.index = ReqIndex(op.args)
        /\ op.out.mapping.phys = Addressed.addr + ReqPageOffset(op.args)
        /\ op.out.mapping.size = op.args.size
        /\ Addressed.addr <= op.out.mapping.phys
        /\ op.out.mapping.phys + op.out.mapping.size
                <= Addressed.addr + Addressed.size
        /\ \A j \in DOMAIN regions.arr \ {ReqIndex(op.args)} :
                \/ op.out.mapping.phys + op.out.mapping.size
                        <= regions.arr[j].addr
                \/ regions.arr[j].addr + regions.arr[j].size
                        <= op.out.mapping.phys

C1_Witness ==
    /\ IsMap
    /\ op.ret = "OK"
    /\ ReqPageOffset(op.args) > 0
    /\ op.out.mapping.phys + op.out.mapping.size
            = Addressed.addr + Addressed.size

\* C2: a map request longer than the region it addresses fails, with
\* InvalidArgument or PermissionDenied, and maps nothing.
C2_TooLongFails ==
    (AddressesRegion /\ op.args.size > Addressed.size) =>
        /\ op.ret \in {"EINVAL", "EACCES", "EPERM"}
        /\ op.out.mapping = NoMapping

C2_Witness ==
    /\ AddressesRegion
    /\ op.args.size > Addressed.size
    /\ "MMAP" \in Addressed.flags
    /\ Addressed.size >= PAGE_SIZE
    /\ op.args.vm_flags \subseteq Addressed.flags
    /\ op.env.remap_ret = "OK"

\* C4: the index map decodes from the offset GET_REGION_INFO returns for a
\* valid index i is i, with page offset 0; and whatever the offset, map
\* either addresses a region below the region count or fails EINVAL.
C4_OffsetRoundTrip ==
    /\ (op.name = "VFIO_DEVICE_GET_REGION_INFO" /\ op.ret = "OK") =>
            /\ op.args.index < res_count
            /\ mmap_index(OffsetToPgoff(op.out.offset)) = op.args.index
            /\ mmap_pgoff(OffsetToPgoff(op.out.offset)) = 0
    /\ IsMap =>
            /\ \A i \in 0 .. MaxIndex :
                 op.args.vm_pgoff = OffsetToPgoff(vfio_cdx_index_to_offset(i))
                    => op.out.index = i
            /\ \/ op.out.index < res_count
               \/ op.ret = "EINVAL" /\ op.out.mapping = NoMapping

C4_Witness ==
    /\ IsMap
    /\ op.ret = "OK"
    /\ op.out.index = 1
    /\ op.args.vm_pgoff = OffsetToPgoff(vfio_cdx_index_to_offset(1))

\* C5: a close frees the region array, then resets the device, then cleans
\* the interrupts up; a failed reset is logged and the cleanup still runs.
C5_CloseOrder ==
    op.name = "close" =>
        /\ Len(op.calls) >= 3
        /\ op.calls[1].fn = "kfree"
        /\ op.calls[2].fn = "cdx_dev_reset"
        /\ op.calls[3].fn = "vfio_cdx_irqs_cleanup"
        /\ regions.st = "freed"
        /\ DOMAIN descs[VDev] = {}
        /\ (op.env.reset_ret # "OK" =>
                /\ op.logged # <<>>
                /\ Head(op.logged) = "VFIO_CDX: reset device has failed")
        /\ (op.args.had_vectors =>
                /\ Len(op.calls) = 5
                /\ op.calls[4].fn = "dev_configure"
                /\ op.calls[5].fn = "msi_domain_free_irqs_all")

C5_Witness ==
    /\ op.name = "close"
    /\ op.env.reset_ret # "OK"
    /\ op.args.had_vectors

\* the map requests C8 is about: write access to a region that is not
\* writable, or a region that is not MAP_CAPABLE
Refused ==
    /\ AddressesRegion
    /\ \/ "WRITE" \in op.args.vm_flags /\ "WRITE" \notin Addressed.flags
       \/ "MMAP" \notin Addressed.flags

\* C8 as stated: such a request fails with PermissionDenied, an outcome
\* other than InvalidArgument, and maps nothing.
C8_PermissionDenied ==
    Refused => (op.ret \in {"EACCES", "EPERM"} /\ op.out.mapping = NoMapping)

\* C8 as amended: such a request fails with InvalidArgument and maps nothing.
C8_RefusedInvalidArgument ==
    Refused => (op.ret = "EINVAL" /\ op.out.mapping = NoMapping)

C8_Witness ==
    /\ Refused
    /\ "MMAP" \in Addressed.flags
    /\ ReqPageOffset(op.args) + op.args.size <= Addressed.size
    /\ op.env.remap_ret = "OK"

\* C9: a SET_IRQS whose header names start + count above the vector count
\* fails EINVAL before the token array is copied and before the vectors are
\* configured, and no vector changes.
C9_RejectedBeforeCopy ==
    [][(/\ op'.name = "VFIO_DEVICE_SET_IRQS"
        /\ ~op'.env.fault_in
        /\ op'.args.hdr.start + op'.args.hdr.count > num_msi[VDev]) =>
            /\ op'.ret = "EINVAL"
            /\ op'.calls = <<>>
            /\ UNCHANGED <<tokens, descs, hw, has_msi_data, regions>>
      ]_vars

C9_Witness ==
    /\ op.name = "VFIO_DEVICE_SET_IRQS"
    /\ ~op.env.fault_in
    /\ op.args.hdr.start < num_msi[VDev]
    /\ op.args.hdr.start + op.args.hdr.count > num_msi[VDev]
    /\ op.ret = "EINVAL"
    /\ \E j \in DOMAIN tokens : tokens[j] # 0

----------------------------------------------------------------------------
(* Claims on the region catalogue and the query commands *)

\* the flags a resource is expected to get, by plain arithmetic
ExpectedFlags(r) ==
    {"READ"}
    \cup (IF r.readonly THEN {} ELSE {"WRITE"})
    \cup (IF r.start % PAGE_SIZE = 0 /\ r.size % PAGE_SIZE = 0
          THEN {"MMAP"} ELSE {})

\* C11: every successful open, a re-open after a close included, leaves each
\* descriptor with flags computed from nothing but its resource: readable
\* always, writable iff the resource is not read-only, map-capable iff address
\* and size are both page multiples; {0x1000, 0x1000, writable} gets all three
\* flags and {0x1234, 0x10, read-only} gets readable alone.
C11_FlagsFromScratch ==
    (op.name = "open" /\ op.ret = "OK") =>
        /\ regions.st = "live"
        /\ DOMAIN regions.arr = DOMAIN res
        /\ \A i \in DOMAIN res :
            /\ regions.arr[i].flags = ExpectedFlags(res[i])
            /\ (res[i] = Res(4096, 4096, FALSE)) =>
                   regions.arr[i].flags = {"READ", "WRITE", "MMAP"}
            /\ (res[i] = Res(4660, 16, TRUE)) =>
                   regions.arr[i].flags = {"READ"}

\* a re-open of a device holding the read-only unaligned resource
C11_Witness ==
    /\ op.name = "open"
    /\ op.ret = "OK"
    /\ op.args.prior = "freed"
    /\ \E i \in DOMAIN res :
        res[i] = Res(4660, 16, TRUE) /\ regions.arr[i].flags = {"READ"}

\* a SET_IRQS request the core validation and the user copy let through
WellFormedSetIrqs(o) ==
    /\ o.name = "VFIO_DEVICE_SET_IRQS"
    /\ o.env = EnvOk
    /\ o.args.hdr.argsz >= IrqSetMinsz
    /\ o.args.hdr.index = 0
    /\ o.args.hdr.start < num_msi[VDev]
    /\ o.args.hdr.start + o.args.hdr.count <= num_msi[VDev]

\* C12: a close of a session with armed vectors tells the controller to
\* disable the device's interrupts, then frees every vector, so that no
\* descriptor and no token is left once the session is closed; the next
\* allocation of the full vector count, made by the first SET_IRQS of a later
\* session, is not refused as already allocated and leaves no vector with a
\* token other than the ones this request brings.
C12_CloseFreesVectors ==
    [][ /\ (op'.name = "close" /\ op'.args.had_armed # {}) =>
              /\ Len(op'.calls) = 5
              /\ op'.calls[4] = [fn |-> "dev_configure",
                                 cfg |-> [type |-> "CDX_DEV_MSI_ENABLE",
                                          msi_enable |-> FALSE]]
              /\ op'.calls[5] = [fn |-> "msi_domain_free_irqs_all"]
              /\ (op'.env.cfg_ret = "OK" => ~hw'[VDev].msi_enable)
        /\ ~opened' =>
              /\ descs'[VDev] = NoDescs
              /\ \A j \in DOMAIN tokens' : tokens'[j] = 0
        /\ (WellFormedSetIrqs(op') /\ DOMAIN descs[VDev] = {}) =>
              /\ op'.ret = "OK"
              /\ \E k \in DOMAIN op'.calls :
                    op'.calls[k].fn = "msi_domain_alloc_irqs"
              /\ DOMAIN descs'[VDev] = 0 .. num_msi[VDev] - 1
              /\ \A j \in DOMAIN tokens' :
                    LET h == op'.args.hdr
                    IN  tokens'[j] =
                          IF h.start <= j /\ j < h.start + h.count
                             /\ op'.args.data[j - h.start + 1] # -1
                          THEN op'.args.data[j - h.start + 1]
                          ELSE 0
      ]_vars

\* a session with an armed vector has just been closed
C12_Witness ==
    /\ op.name = "close"
    /\ op.args.had_armed # {}
    /\ descs[VDev] = NoDescs
    /\ \A j \in DOMAIN tokens : tokens[j] = 0

\* the three query commands and the minimum payload size of each
QueryCmds ==
    {"VFIO_DEVICE_GET_INFO", "VFIO_DEVICE_GET_REGION_INFO",
     "VFIO_DEVICE_GET_IRQ_INFO"}

QueryMinsz(cmd) ==
    CASE cmd = "VFIO_DEVICE_GET_INFO" -> DeviceInfoMinsz
      [] cmd = "VFIO_DEVICE_GET_REGION_INFO" -> RegionInfoMinsz
      [] cmd = "VFIO_DEVICE_GET_IRQ_INFO" -> IrqInfoMinsz

\* the last operation is a query whose payload could be read
IsQuery == op.name \in QueryCmds /\ ~op.env.fault_in

\* the index of the last query is one the command knows
QueryIndexKnown ==
    CASE op.name = "VFIO_DEVICE_GET_INFO" -> TRUE
      [] op.name = "VFIO_DEVICE_GET_REGION_INFO" ->
            op.args.index < Cardinality(DOMAIN res)
      [] op.name = "VFIO_DEVICE_GET_IRQ_INFO" -> op.args.index = 0

\* C13: a query whose payload declares less than the command's minimum size
\* fails with InvalidArgument and writes nothing back; a declared size of the
\* minimum or more is accepted, and return value and written payload are the
\* ones the same query gets with exactly the minimum size.
C13_SizeCheck ==
    IsQuery =>
        LET minsz == QueryMinsz(op.name)
            exact == vfio_cdx_ioctl(op.name, [op.args EXCEPT !.argsz = minsz],
                                    op.env)
        IN  /\ op.args.argsz < minsz =>
                  op.ret = "EINVAL" /\ op.out = NoOut
            /\ op.args.argsz >= minsz =>
                  /\ op.ret = exact.ret
                  /\ op.out = exact.out
                  /\ (op.ret = "EINVAL") = ~QueryIndexKnown
                  /\ (op.ret = "OK") = (QueryIndexKnown /\ ~op.env.fault_out)
                  /\ op.out.written = (op.ret = "OK")

\* a query with trailing bytes beyond the minimum has been answered
C13_Witness ==
    /\ op.name = "VFIO_DEVICE_GET_INFO"
    /\ op.args.argsz > DeviceInfoMinsz
    /\ op.ret = "OK"
    /\ op.out.written

\* the last operation is the named query with a readable payload of at least
\* the minimum size
SizedQuery(cmd) ==
    /\ op.name = cmd
    /\ ~op.env.fault_in
    /\ op.args.argsz >= QueryMinsz(cmd)

\* C14: GET_REGION_INFO with a sufficiently sized payload fails with
\* InvalidArgument iff its index is the region count or more; an index below
\* it, written back to accessible memory, succeeds with offset = index *
\* 2^OFFSET_SHIFT and the size and flags of that index's descriptor.
C14_RegionInfo ==
    SizedQuery("VFIO_DEVICE_GET_REGION_INFO") =>
        LET index == op.args.index
        IN  /\ (op.ret = "EINVAL") = (index >= Cardinality(DOMAIN res))
            /\ (index < Cardinality(DOMAIN res) /\ ~op.env.fault_out) =>
                  /\ op.ret = "OK"
                  /\ op.out.written
                  /\ op.out.offset.lo32 = 0
                  /\ op.out.offset.hi32 =
                        index * 2 ^ (VFIO_CDX_OFFSET_SHIFT - 32)
                  /\ op.out.size = regions.arr[index].size
                  /\ op.out.size = res[index].size
                  /\ op.out.flags = regions.arr[index].flags

\* the second region of a device has been queried with success
C14_Witness ==
    /\ SizedQuery("VFIO_DEVICE_GET_REGION_INFO")
    /\ op.args.index = 1
    /\ op.ret = "OK"
    /\ op.out.offset = [hi32 |-> 256, lo32 |-> 0]

\* C15: GET_IRQ_INFO with a sufficiently sized payload fails with
\* InvalidArgument for every index of 1 or more and writes nothing; index 0,
\* written back to accessible memory, succeeds with the flags
\* {SUPPORTS_NOTIFICATION} and a count equal to the device's vector count.
C15_IrqInfo ==
    SizedQuery("VFIO_DEVICE_GET_IRQ_INFO") =>
        /\ op.args.index >= 1 => (op.ret = "EINVAL" /\ op.out = NoOut)
        /\ (op.args.index = 0 /\ ~op.env.fault_out) =>
              /\ op.ret = "OK"
              /\ op.out = [written |-> TRUE, flags |-> {"EVENTFD"},
                           count |-> num_msi[VDev]]
              /\ op.out.count = SessMsi

\* the second interrupt group has been asked for and refused
C15_Witness ==
    /\ SizedQuery("VFIO_DEVICE_GET_IRQ_INFO")
    /\ op.args.index = 1
    /\ op.ret = "EINVAL"

\* C16: RESET does nothing but call the Bus Controller's reset and return
\* its answer as it is: no region descriptor, vector, token or hardware
\* enable changes, nothing is written back or logged; so of two RESETs in
\* succession the second has the outcome of the first exactly when the
\* controller answers the same.
C16_ResetDelegates ==
    [][ op'.name = "VFIO_DEVICE_RESET" =>
          /\ op'.ret = op'.env.reset_ret
          /\ op'.calls = <<[fn |-> "cdx_dev_reset"]>>
          /\ op'.logged = <<>>
          /\ op'.out = NoOut
          /\ UNCHANGED <<regions, opened, tokens, descs, has_msi_data, hw,
                         res, num_msi, req_id>>
          /\ op.name = "VFIO_DEVICE_RESET" =>
                (op'.ret = op.ret) = (op'.env.reset_ret = op.env.reset_ret)
      ]_vars

\* a RESET the controller refused, in a session with armed vectors
C16_Witness ==
    /\ op.name = "VFIO_DEVICE_RESET"
    /\ op.ret = "EIO"
    /\ \E j \in DOMAIN tokens : tokens[j] # 0

\* the catalogue an open builds from the resources of the device
Catalogue ==
    [i \in DOMAIN res |->
        [addr |-> res[i].start, size |-> res[i].size,
         type |-> res[i].readonly, flags |-> ExpectedFlags(res[i])]]

\* C17: between an open and its close the region descriptors do not change:
\* no command and no map request, succeeding or failing, alters the number of
\* regions or the address, size or flags of one.
C17_RegionsImmutable ==
    [][ /\ (opened /\ opened') => regions' = regions
        /\ op'.name \notin {"open", "close"} => regions' = regions
        /\ opened' => (regions'.st = "live" /\ regions'.arr = Catalogue)
      ]_vars

\* a successful map request has left the catalogue as the open built it
C17_Witness ==
    /\ op.name = "mmap"
    /\ op.ret = "OK"
    /\ op.out.mapping.phys # regions.arr[op.out.index].addr
    /\ regions.arr = Catalogue

\* C20: with opens and closes alternating and nothing run on a closed
\* session, every GET_REGION_INFO and every map request finds the array
\* live and holding what the most recent open computed; an open never
\* replaces a live array, a close frees a live array and nothing else does,
\* and a re-open starts from the resources alone.
C20_SessionLifecycle ==
    [][ /\ op'.name \in {"VFIO_DEVICE_GET_REGION_INFO", "mmap"} =>
              (regions.st = "live" /\ regions.arr = Catalogue)
        /\ op'.name = "open" =>
              /\ regions.st # "live"
              /\ op'.ret = "OK" =>
                    (regions'.st = "live" /\ regions'.arr = Catalogue)
              /\ op'.ret # "OK" => (regions'.st = "null" /\ ~opened')
        /\ op'.name = "close" =>
              (regions.st = "live" /\ regions'.st = "freed")
        /\ (regions.st = "live" /\ regions'.st # "live") => op'.name = "close"
        /\ regions'.st = "freed" => ~opened'
      ]_vars

\* a region query answered in a session opened after an earlier one was
\* closed: no vector is allocated, yet the hardware enable of the earlier
\* session is still set, which only a close whose disable the controller
\* refused leaves behind
C20_Witness ==
    /\ op.name = "VFIO_DEVICE_GET_REGION_INFO"
    /\ op.ret = "OK"
    /\ opened
    /\ descs[VDev] = NoDescs
    /\ hw[VDev].msi_enable
    /\ op.out.flags = Catalogue[op.args.index].flags

----------------------------------------------------------------------------
(* Further claims on the MSI domain *)

\* C18: prepare looks the requestor ID of the device up in the translation
\* table first; when the lookup fails it returns that error and the parent's
\* prepare is not called; when it succeeds the parent's prepare is called
\* exactly once, with the translated device ID and the vector count prepare
\* was given, and its result is returned as it is.
C18_PrepareTranslatesFirst ==
    op.name = "msi_prepare" =>
        /\ op.args.map_ret # "OK" =>
              /\ op.ret = op.args.map_ret
              /\ op.calls = <<>>
        /\ op.args.map_ret = "OK" =>
              /\ op.calls = <<[fn |-> "parent.msi_prepare",
                               nvec |-> op.args.nvec,
                               scratchpad0 |-> MsiMapBase + req_id[op.dev]]>>
              /\ op.ret = op.args.parent_ret

\* the translation succeeded and the parent's prepare failed
C18_Witness ==
    /\ op.name = "msi_prepare"
    /\ op.args.map_ret = "OK"
    /\ op.ret = "ENOMEM"
    /\ op.calls[1].scratchpad0 = MsiMapBase + MaxReqId

\* the vector indices the shift leaves room for
BelowLimit(i) == i < 2 ^ REQ_ID_SHIFT

\* C19: among the bound vectors with an index below 1024 the composite
\* identity is req_id * 1024 + index, and two of them are equal only for the
\* same requestor ID and the same index.
C19_InjectiveBelowLimit ==
    \A a \in Devs, b \in Devs :
        \A i \in DOMAIN descs[a], j \in DOMAIN descs[b] :
            (BelowLimit(i) /\ BelowLimit(j)) =>
                /\ descs[a][i].hwirq = req_id[a] * 2 ^ REQ_ID_SHIFT + i
                /\ (descs[a][i].hwirq = descs[b][j].hwirq) =>
                       (req_id[a] = req_id[b] /\ i = j)

\* two devices with different requestor IDs have vectors bound, the largest
\* index below the limit among them, and none at the limit or above
C19_Witness ==
    /\ op.name = "set_desc"
    /\ req_id["A"] # req_id["B"]
    /\ 2 ^ REQ_ID_SHIFT - 1 \in DOMAIN descs["A"]
    /\ 1 \in DOMAIN descs["B"]
    /\ \A d \in Devs : \A i \in DOMAIN descs[d] : BelowLimit(i)

====
